---- MODULE Spec2Model ----
(***************************************************************************)
(* IntentLink backend: the security-vetted candidate ranking and plan      *)
(* synthesis pipeline (api_v1/api.py, services/security_service.py).       *)
(*                                                                         *)
(* Numbers: APY and utility are fixed-point values in millionths           *)
(* (0.12 = 120000); times are seconds.  Strings that the code inspects     *)
(* character by character (intent_type, the parse input) are sequences of  *)
(* one-character strings; strings that are only passed along are strings.  *)
(***************************************************************************)
EXTENDS Integers, Sequences, FiniteSets, TLC

\* ------------------------------------------------------------------ bounds
MaxIntents == 1      \* rows of the Intent table
MaxPlans   == 1      \* rows of the Plan table
MaxTokens  == 2      \* credentials the oracle issues in one behaviour
MaxTime    == 90     \* last clock value (seconds)
TickStep   == 30     \* clock granularity (seconds)

Workers == {1, 2}    \* request-handling processes

\* ------------------------------------------------------------ text helpers
UpperChars == <<"A", "B", "D", "G", "L", "S">>
LowerChars == <<"a", "b", "d", "g", "l", "s">>

\* str.lower(), one character
LowerChar(c) ==
    IF \E i \in 1..Len(UpperChars) : UpperChars[i] = c
    THEN LowerChars[CHOOSE i \in 1..Len(UpperChars) : UpperChars[i] = c]
    ELSE c

\* str.lower()
Lower(s) == [i \in 1..Len(s) |-> LowerChar(s[i])]

\* Python's `sub in s` on strings
Contains(sub, s) ==
    \E i \in 0..(Len(s) - Len(sub)) :
        \A j \in 1..Len(sub) : s[i + j] = sub[j]

STR_LEND   == <<"l", "e", "n", "d">>
STR_BORROW == <<"b", "o", "r", "r", "o", "w">>
STR_STAKE  == <<"s", "t", "a", "k", "e">>
STR_FARM   == <<"f", "a", "r", "m">>
STR_STAKE_AND_COMPOUND ==
    <<"s", "t", "a", "k", "e", "_", "a", "n", "d", "_",
      "c", "o", "m", "p", "o", "u", "n", "d">>
STR_STAKE_1000_BDAG ==
    <<"s", "t", "a", "k", "e", " ", "1", "0", "0", "0", " ", "b", "d", "a", "g">>

NULL == "NULL"       \* Python None / JSON null, for pass-through fields

Max2(a, b) == IF a >= b THEN a ELSE b

\* ------------------------------------------------------------- whitelists
INTENT_WALLET_ADDRESS == "0x718a09981d305c2293d0c85e9d957ad25cb2a1c7"

MockStakingFarm ==
    [address |-> "0x1b227DF9c8D34CaB880774737FBf426E66Ba98Ed",
     mock_apy |-> 120000, mock_tvl |-> 500000, protocol |-> "staking"]
MockLending ==
    [address |-> "0xa23bDd28F9221F275897D8A26A8eb97A341cd257",
     mock_apy |-> 50000, mock_tvl |-> 2500000, protocol |-> "lending"]
\* "Additional production farms can be added here as they are deployed":
\* further whitelist entries, used by the extended deployment below.
StakingFarmB ==
    [address |-> "0x2c338EA0d9F45dB990885845A3bD4fE77Ca09bF1",
     mock_apy |-> 50000, mock_tvl |-> 500000, protocol |-> "staking"]
LendingB ==
    [address |-> "0x7E46a1b0C9d3F25e8A4410cB6dD3f0A95bC2e8D4",
     mock_apy |-> 50000, mock_tvl |-> 2500000, protocol |-> "lending"]

\* The whitelists a deployment can carry: the ones in the source, and an
\* extended one with two entries per list (mixed APY for farms, equal APY
\* for lending, so that ranking and tie-break have something to decide).
Deployments ==
    { [farms |-> <<MockStakingFarm>>, lending |-> <<MockLending>>],
      [farms |-> <<MockStakingFarm, StakingFarmB>>,
       lending |-> <<MockLending, LendingB>>] }

\* (api_key, api_secret) as loaded from settings: "" when not configured
Credentials ==
    { [api_key |-> "key", api_secret |-> "secret"],
      [api_key |-> "key", api_secret |-> ""],
      [api_key |-> "",    api_secret |-> "secret"],
      [api_key |-> "",    api_secret |-> ""] }

\* ------------------------------------------------------------------ state
VARIABLES
    CANDIDATE_FARMS,     \* whitelist of staking farms
    CANDIDATE_LENDING,   \* whitelist of lending protocols
    api_key, api_secret, \* SecurityService credentials
    intents,             \* Intent table: row id = index
    plans,               \* Plan table: row id = index
    redis,               \* the key goplus:access_token: [val, exp]; val = 0 absent
    now,                 \* wall clock
    issued,              \* credentials issued by the oracle so far: 1..issued
    req                  \* per worker: position and locals of the running handler

vars == <<CANDIDATE_FARMS, CANDIDATE_LENDING, api_key, api_secret,
          intents, plans, redis, now, issued, req>>

config == <<CANDIDATE_FARMS, CANDIDATE_LENDING, api_key, api_secret>>

\* ------------------------------------------------------------ Intent rows
\* intent_json {} is the record with intent_type "" and asset/amount absent
\* (.get("intent_type", "") and .get("asset") give "" and None on both).
EmptyIntentJson == [intent_type |-> <<>>, asset |-> NULL, amount |-> NULL]
StakeIntentJson ==
    [intent_type |-> STR_STAKE_AND_COMPOUND, asset |-> "BDAG", amount |-> "1000.0"]

\* intent_json values a stored Intent row can carry
IntentJsons ==
    { EmptyIntentJson,
      StakeIntentJson,
      [intent_type |-> STR_LEND, asset |-> "BDAG", amount |-> "1000.0"],
      [intent_type |-> <<"B", "o", "r", "r", "o", "w">>, asset |-> "BDAG", amount |-> "5.0"],
      [intent_type |-> STR_FARM, asset |-> "BDAG", amount |-> "5.0"],
      [intent_type |-> <<"s", "w", "a", "p">>, asset |-> NULL, amount |-> "5.0"] }

\* ----------------------------------------------------- handler-local state
IdleReq ==
    [pc |-> "idle", op |-> "none", response |-> 0,
     \* plan_intent
     \* intent, chosen, report: a sequence of at most one record, <<>> is None
     intent_id |-> 0, intent |-> <<>>, intent_type |-> <<>>,
     candidates_to_check |-> <<>>, idx |-> 0,
     candidate_results |-> <<>>, checked |-> <<>>,
     chosen |-> <<>>, new_plan |-> 0, plans_before |-> 0,
     \* run_security_check
     warnings |-> <<>>, is_honeypot |-> FALSE, is_malicious_creator |-> FALSE,
     access_token |-> 0, report |-> <<>>, rsc_raised |-> FALSE,
     check1 |-> "none", warnings1 |-> 0, check2 |-> "none",
     \* headers of the two oracle calls, as sent
     headers1 |-> <<>>, headers2 |-> <<>>,
     \* _get_access_token
     shape |-> 0, last_error |-> "none", posts |-> 0, cache_ttl |-> 0,
     \* credentials the oracle issued in answer to the POSTs of this call
     minted |-> {},
     tok_outcome |-> "none", cache_seen |-> "none", tok_error |-> "none",
     \* where the response that yielded the credential had its token and
     \* its expiry, <<>> when there is none
     tok_resp |-> <<>>,
     \* the time of the cache read of this call, and the time at which the
     \* credential it was issued expires by the oracle's word
     called_at |-> 0, expires_at |-> 0,
     \* line 210: str(result.get("is_open_source")); "" before it is assigned
     open_source_flag |-> ""]

\* _get_access_token locals, once the call is over
ClearToken(r) ==
    [r EXCEPT !.shape = 0, !.last_error = "none", !.posts = 0,
              !.cache_ttl = 0, !.minted = {},
              !.tok_outcome = "none", !.cache_seen = "none",
              !.tok_error = "none", !.tok_resp = <<>>,
              !.called_at = 0, !.expires_at = 0]

\* run_security_check and _get_access_token locals, before a check starts
ClearCheck(r) ==
    [ClearToken(r) EXCEPT
              !.warnings = <<>>, !.is_honeypot = FALSE,
              !.is_malicious_creator = FALSE, !.access_token = 0,
              !.report = <<>>, !.rsc_raised = FALSE,
              !.check1 = "none", !.warnings1 = 0, !.check2 = "none",
              !.headers1 = <<>>, !.headers2 = <<>>,
              !.open_source_flag = ""]

Set(p, r) == req' = [req EXCEPT ![p] = r]

\* ------------------------------------------------------------------- Init
\* a stored Intent row
IntentRow(json, status) == [chain_id |-> 1043, intent_json |-> json, status |-> status]

\* Intent tables at start: empty, or one row stored earlier
IntentTables == {<<>>} \cup {<<IntentRow(j, "parsed")>> : j \in IntentJsons}

\* the cache key at start: absent, or a credential stored earlier (redis is
\* a server shared with other processes and outlives this one)
\* (expires_at: until when the oracle said the stored credential is good)
EmptyCache == [val |-> 0, exp |-> 0, expires_at |-> 0]
WarmCache  == [val |-> 1, exp |-> 3600, expires_at |-> 3660]
\* a credential stored earlier whose TTL has run out
StaleCache == [val |-> 1, exp |-> 0, expires_at |-> 60]

InitAll(deployments, credentials, tables, caches) ==
    /\ \E d \in deployments :
        /\ CANDIDATE_FARMS = d.farms
        /\ CANDIDATE_LENDING = d.lending
    /\ \E c \in credentials :
        /\ api_key = c.api_key
        /\ api_secret = c.api_secret
    /\ intents \in tables
    /\ plans = <<>>
    /\ redis \in caches
    /\ now = 0
    /\ issued = redis.val
    /\ req = [p \in Workers |-> IdleReq]

InitWith(deployments, credentials, tables) ==
    InitAll(deployments, credentials, tables, {EmptyCache})

Init == InitWith(Deployments, Credentials, IntentTables)

\* ------------------------------------------------------------- exceptions
\* Every error the model raises is a subclass of Python's Exception.
ExceptionKinds ==
    {"HTTPStatusError", "TransportError", "ValueError", "RedisError", "Exception"}

\* ------------------------------------------------------------ token cache
\* RedisGet with the expiry forgotten (a cache without TTL)
RedisGetNoExpiry(store, t) == store.val

\* redis GET of a key with an expiry: the value while the key lives, else None
RedisGet(store, t) == IF store.val # 0 /\ t < store.exp THEN store.val ELSE 0

\* RedisSet that keeps a value that is already there (SET ... NX)
RedisSetNX(store, value, ttl, t) ==
    IF store.val # 0 /\ t < store.exp THEN store
    ELSE [store EXCEPT !.val = value, !.exp = t + ttl]

\* redis SET key value EX ttl: whatever the key held is replaced
RedisSet(store, value, ttl, t) == [store EXCEPT !.val = value, !.exp = t + ttl]

\* an expires_in field: absent, present but not a number, or a number
Exp(seconds) == [present |-> TRUE, numeric |-> TRUE, value |-> seconds]
ExpAbsent    == [present |-> FALSE, numeric |-> FALSE, value |-> 0]
ExpBad       == [present |-> TRUE, numeric |-> FALSE, value |-> 0]
ExpiresIn    == {ExpAbsent, ExpBad, Exp(30), Exp(200)}

\* Outcomes of POST {base}/token.  A "json" body: code (0 = no code field),
\* whether result/data is an object, where a token field is, and expires_in
\* at top level and inside result/data (fields nothing reads are left at
\* their defaults).
TokenResponses ==
    [kind : {"transport_error", "http_error", "bad_json"},
     code : {0}, nested : {FALSE}, nested_token : {FALSE}, top_token : {FALSE},
     nested_exp : {ExpAbsent}, top_exp : {ExpAbsent}]
    \cup
    [kind : {"json"}, code : {4012}, nested : {FALSE}, nested_token : {FALSE},
     top_token : {FALSE}, nested_exp : {ExpAbsent}, top_exp : {ExpAbsent}]
    \cup
    [kind : {"json"}, code : {0, 1}, nested : {FALSE}, nested_token : {FALSE},
     top_token : {FALSE}, nested_exp : {ExpAbsent}, top_exp : {ExpAbsent}]
    \cup
    [kind : {"json"}, code : {0, 1}, nested : {FALSE}, nested_token : {FALSE},
     top_token : {TRUE}, nested_exp : {ExpAbsent}, top_exp : ExpiresIn]
    \cup
    [kind : {"json"}, code : {0, 1}, nested : {TRUE}, nested_token : {FALSE},
     top_token : BOOLEAN, nested_exp : {ExpAbsent}, top_exp : {ExpAbsent}]
    \cup
    [kind : {"json"}, code : {0, 1}, nested : {TRUE}, nested_token : {TRUE},
     top_token : {FALSE}, nested_exp : ExpiresIn, top_exp : ExpiresIn]

\* the response carries a credential the oracle issued
CarriesToken(resp) ==
    resp.kind = "json" /\ ((resp.nested /\ resp.nested_token) \/ resp.top_token)

\* lines 99-108: the token is read inside result/data when that is an object,
\* at top level otherwise
ExtractAccessToken(resp, tok) ==
    IF resp.nested
    THEN IF resp.nested_token THEN tok ELSE 0
    ELSE IF resp.top_token THEN tok ELSE 0

\* lines 112-114
ExtractExpiresIn(resp) ==
    LET top == IF resp.top_exp.present THEN resp.top_exp ELSE Exp(3600)
    IN  IF resp.nested
        THEN IF resp.nested_exp.present THEN resp.nested_exp ELSE top
        ELSE top

\* CacheTtl without the floor of 60 seconds
CacheTtlNoFloor(expires_in) == expires_in.value - 60

\* line 115
CacheTtl(expires_in) == Max2(60, expires_in.value - 60)

\* line 123: the handler around one attempt
AttemptCatches(e) == e = "HTTPStatusError"

\* lines 83-126, one iteration of the loop over auth_payloads, up to the
\* cache write: "token" (a credential to cache and return), "continue"
\* (next payload shape) or "raise" (the error leaves the loop).
TokenAttempt(resp, tok) ==
    LET fail(e) == [result |-> IF AttemptCatches(e) THEN "continue" ELSE "raise",
                    error |-> e, token |-> 0, ttl |-> 0]
    IN  CASE resp.kind = "transport_error" -> fail("TransportError")
          [] resp.kind = "http_error"      -> fail("HTTPStatusError")
          [] resp.kind = "bad_json"        -> fail("ValueError")
          [] OTHER ->
                IF resp.code # 0 /\ resp.code # 1
                THEN [result |-> "continue", error |-> "Exception",
                      token |-> 0, ttl |-> 0]
                ELSE IF ExtractAccessToken(resp, tok) # 0
                THEN IF ~ExtractExpiresIn(resp).numeric
                     THEN fail("ValueError")
                     ELSE [result |-> "token", error |-> "none",
                           token |-> ExtractAccessToken(resp, tok),
                           ttl |-> CacheTtl(ExtractExpiresIn(resp))]
                ELSE [result |-> "continue", error |-> "Exception",
                      token |-> 0, ttl |-> 0]

\* number of request-body shapes in auth_payloads
NumShapes == Len(<<"app_key/app_secret", "appKey/appSecret", "api_key/api_secret">>)

\* line 175: the handler around the call of _get_access_token
TokenFailureCaught(e) == e \in ExceptionKinds

\* lines 173-177 in run_security_check: _get_access_token returned tok
TokenReturned(r, tok, how) ==
    [r EXCEPT !.pc = "check1", !.access_token = tok, !.tok_outcome = how]

\* lines 175-177 in run_security_check: _get_access_token raised e
TokenRaised(r, e) ==
    IF TokenFailureCaught(e)
    THEN [r EXCEPT !.pc = "check1", !.access_token = 0,
                   !.tok_outcome = "raised", !.tok_error = e]
    ELSE [r EXCEPT !.pc = "report", !.rsc_raised = TRUE,
                   !.tok_outcome = "raised", !.tok_error = e]

\* _get_access_token, lines 60-67: cache lookup and credential check
TokenCacheGet(p) ==
    LET r == req[p]
        was == IF redis.val = 0 THEN "empty"
               ELSE IF now < redis.exp THEN "live" ELSE "expired"
    IN  /\ r.pc = "tok_cache"
        /\ \E redis_ok \in BOOLEAN :
            IF ~redis_ok
            THEN Set(p, TokenRaised([r EXCEPT !.cache_seen = "error"], "RedisError"))
            ELSE LET s == [r EXCEPT !.cache_seen = was, !.called_at = now] IN
                 IF RedisGet(redis, now) # 0
                 THEN Set(p, TokenReturned(s, RedisGet(redis, now), "hit"))
                 ELSE IF api_key = "" \/ api_secret = ""
                 THEN Set(p, TokenRaised(s, "Exception"))
                 ELSE Set(p, [s EXCEPT !.pc = "tok_post", !.shape = 1,
                                       !.last_error = "none", !.posts = 0])
        /\ UNCHANGED <<config, intents, plans, redis, now, issued>>

\* _get_access_token, lines 80-115 and 120-139: one POST {base}/token with
\* the payload shape r.shape, and what follows it up to the next POST, the
\* cache write or the raise
TokenPost(p) ==
    LET r == req[p] IN
    /\ r.pc = "tok_post"
    /\ \E resp \in TokenResponses :
        LET tok == issued + 1
            a   == TokenAttempt(resp, tok)
            s   == [r EXCEPT !.posts = r.posts + 1,
                             !.tok_resp = IF a.result = "token"
                                          THEN <<[nested |-> resp.nested,
                                                  nested_token |-> resp.nested_token,
                                                  nested_exp |-> resp.nested_exp,
                                                  top_exp |-> resp.top_exp]>>
                                          ELSE <<>>,
                             !.minted = IF CarriesToken(resp)
                                        THEN r.minted \cup {tok} ELSE r.minted]
        IN  /\ CarriesToken(resp) => issued < MaxTokens
            /\ issued' = IF CarriesToken(resp) THEN tok ELSE issued
            /\ CASE a.result = "token" ->
                      Set(p, [s EXCEPT !.pc = "tok_set",
                                       !.access_token = a.token,
                                       !.cache_ttl = a.ttl,
                                       !.expires_at =
                                           now + ExtractExpiresIn(resp).value])
                 [] a.result = "raise" ->
                      Set(p, TokenRaised(s, a.error))
                 [] OTHER ->
                      IF r.shape < NumShapes
                      THEN Set(p, [s EXCEPT !.shape = r.shape + 1,
                                            !.last_error = a.error])
                      ELSE Set(p, TokenRaised([s EXCEPT !.shape = r.shape + 1,
                                                        !.last_error = a.error],
                                              "Exception"))
    /\ UNCHANGED <<config, intents, plans, redis, now>>

\* _get_access_token, lines 116-118: the credential is written to the cache
\* and returned
TokenCacheSet(p) ==
    LET r == req[p] IN
    /\ r.pc = "tok_set"
    /\ \E redis_ok \in BOOLEAN :
        IF redis_ok
        THEN /\ redis' = [RedisSet(redis, r.access_token, r.cache_ttl, now)
                           EXCEPT !.expires_at = r.expires_at]
             /\ Set(p, TokenReturned(r, r.access_token, "issued"))
        ELSE /\ redis' = redis
             /\ Set(p, TokenRaised(r, "RedisError"))
    /\ UNCHANGED <<config, intents, plans, now, issued>>

\* the wall clock advances
Tick ==
    /\ now + TickStep <= MaxTime
    /\ now' = now + TickStep
    /\ UNCHANGED <<config, intents, plans, redis, issued, req>>

\* ----------------------------------------------------- run_security_check
\* str() of a flag field of an oracle result; "None" when the field is absent
FlagValues == {"1", "true", "True", "0", "false", "False", "None"}

\* lines 215 and 267
Truthy(v) == v \in {"1", "true", "True"}

\* line 222
NotVerified(v) == v \in {"0", "false", "False"}

\* the exception a failed HTTP exchange raises: raise_for_status(), the
\* transport, or response.json() and the accesses into a body of another shape
ErrorOf(status) ==
    CASE status = "http_error"      -> "HTTPStatusError"
      [] status = "transport_error" -> "TransportError"
      [] OTHER                      -> "ValueError"

\* Outcomes of GET {base}/token_security/{chain_id}: the result container is
\* keyed by the lower-cased address, by the address as given, or by neither
TokenSecurityResponses ==
    [status : {"http_error", "transport_error", "bad_json"},
     keyed : {"none"}, is_honeypot : {"None"}, is_open_source : {"None"}]
    \cup
    [status : {"ok"}, keyed : {"none"},
     is_honeypot : {"None"}, is_open_source : {"None"}]
    \cup
    [status : {"ok"}, keyed : {"lower", "exact"},
     is_honeypot : FlagValues, is_open_source : FlagValues]

\* Outcomes of GET {base}/address_security/{deployer}
AddressSecurityResponses ==
    [status : {"http_error", "transport_error", "bad_json"},
     has_result : {FALSE}, honeypot_related_address : {"None"}]
    \cup
    [status : {"ok"}, has_result : {FALSE}, honeypot_related_address : {"None"}]
    \cup
    [status : {"ok"}, has_result : {TRUE}, honeypot_related_address : FlagValues]

\* line 204: the address-specific result is looked up under both spellings
AddressResultFound(resp) == resp.keyed = "lower" \/ resp.keyed = "exact"

\* Check1Catches with only the first handler (line 230)
Check1CatchesHttpOnly(e) == e = "HTTPStatusError"

\* lines 230-236: the handlers around the token-security sub-check
Check1Catches(e) == e = "HTTPStatusError" \/ e \in ExceptionKinds

\* lines 275-281: the handlers around the address-security sub-check
Check2Catches(e) == e = "HTTPStatusError" \/ e \in ExceptionKinds

\* lines 207-229: warnings after a token-security response that was read
Check1Warnings(w, resp) ==
    IF AddressResultFound(resp)
    THEN LET w1 == IF Truthy(resp.is_honeypot)
                   THEN Append(w, "Honeypot detected by GoPlus.") ELSE w
         IN  IF NotVerified(resp.is_open_source)
             THEN Append(w1, "Contract source code is not verified.") ELSE w1
    ELSE Append(w, "Could not retrieve a token security report from GoPlus.")

\* lines 215-216
Check1Honeypot(resp) == AddressResultFound(resp) /\ Truthy(resp.is_honeypot)

\* Check1Failed that only logs the failure
Check1FailedSilent(w) == w

\* lines 232 and 236
Check1Failed(w) == Append(w, "Failed to perform token security check.")

\* lines 263-274: warnings after an address-security response that was read
Check2Warnings(w, resp) ==
    IF resp.has_result /\ Truthy(resp.honeypot_related_address)
    THEN Append(w, "Deployer address is related to honeypot activities.")
    ELSE w

\* lines 267-268
Check2Malicious(resp) == resp.has_result /\ Truthy(resp.honeypot_related_address)

\* Check2Failed that starts the list of warnings again
Check2FailedReset(w) == <<"Failed to perform deployer address security check.">>

\* lines 277 and 281
Check2Failed(w) == Append(w, "Failed to perform deployer address security check.")

\* SafetyVerdict that looks at the honeypot flag alone
SafetyVerdictHoneypotOnly(honeypot, malicious) == ~honeypot

\* line 292
SafetyVerdict(honeypot, malicious) == ~honeypot /\ ~malicious

\* SafetyScore with a penalty of 30 for a malicious deployer
SafetyScoreMalicious30(n, honeypot, malicious) ==
    100 - (n * 10) - (IF honeypot THEN 80 ELSE 0) - (IF malicious THEN 30 ELSE 0)

\* line 293
SafetyScore(n, honeypot, malicious) ==
    100 - (n * 10) - (IF honeypot THEN 80 ELSE 0) - (IF malicious THEN 50 ELSE 0)

\* SecurityReport with the floor applied to the logged value only
SecurityReportNoFloor(w, honeypot, malicious) ==
    [is_safe |-> SafetyVerdict(honeypot, malicious),
     safety_score |-> SafetyScore(Len(w), honeypot, malicious),
     warnings |-> w]

\* line 300
SecurityReport(w, honeypot, malicious) ==
    [is_safe |-> SafetyVerdict(honeypot, malicious),
     safety_score |-> Max2(0, SafetyScore(Len(w), honeypot, malicious)),
     warnings |-> w]

\* _find_deployer_address: mocked, a fixed address
FindDeployerAddress == "0xc8b759860149542a98a3eb57c14aadf59d6d89b9"

\* CredentialsProvided that looks at the key alone
CredentialsProvidedKeyOnly(key, secret) == key # ""

\* line 170: `if self.api_key and self.api_secret`
CredentialsProvided(key, secret) == key # "" /\ secret # ""

\* run_security_check, lines 161-177, entered from plan_intent's loop
\* (lines 183-191) for the candidate at idx
RunSecurityCheck(p) ==
    LET r == req[p] IN
    /\ r.pc = "loop"
    /\ r.idx <= Len(r.candidates_to_check)
    /\ Set(p, [ClearCheck(r) EXCEPT
                 !.pc = IF CredentialsProvided(api_key, api_secret)
                        THEN "tok_cache" ELSE "check1"])
    /\ UNCHANGED <<config, intents, plans, redis, now, issued>>

\* Headers that sends the credential of the service key instead
HeadersAlways(access_token) ==
    << [name |-> "Authorization", value |-> Max2(access_token, 1)] >>

\* lines 185-190 and 248-250: the request headers, an Authorization header
\* (Bearer access_token) only when there is a token
Headers(access_token) ==
    IF access_token # 0
    THEN << [name |-> "Authorization", value |-> access_token] >>
    ELSE <<>>

\* lines 207-210: the local open_source_flag, assigned when a result was found
OpenSourceFlag(resp) ==
    IF AddressResultFound(resp) THEN resp.is_open_source ELSE ""

\* run_security_check, lines 179-236: the token-security sub-check
TokenSecurityCheck(p) ==
    LET r == [req[p] EXCEPT !.headers1 = Headers(req[p].access_token),
                            !.tok_resp = <<>>, !.called_at = 0,
                            !.expires_at = 0]
    IN
    /\ r.pc = "check1"
    /\ \E resp \in TokenSecurityResponses :
        IF resp.status # "ok"
        THEN IF Check1Catches(ErrorOf(resp.status))
             THEN Set(p, [r EXCEPT !.pc = "check2",
                                   !.warnings = Check1Failed(r.warnings),
                                   !.check1 = "failed",
                                   !.warnings1 = Len(Check1Failed(r.warnings))])
             ELSE Set(p, [r EXCEPT !.pc = "report", !.rsc_raised = TRUE,
                                   !.check1 = "failed"])
        ELSE Set(p, [r EXCEPT !.pc = "check2",
                              !.warnings = Check1Warnings(r.warnings, resp),
                              !.is_honeypot = Check1Honeypot(resp),
                              !.check1 = "read",
                              !.open_source_flag = OpenSourceFlag(resp),
                              !.warnings1 = Len(Check1Warnings(r.warnings, resp))])
    /\ UNCHANGED <<config, intents, plans, redis, now, issued>>

\* run_security_check, lines 238-300: the address-security sub-check on the
\* deployer, then the aggregation and the return of the report
AddressSecurityCheck(p) ==
    LET r == [req[p] EXCEPT !.open_source_flag = ""]   \* not read after 222
        s == [r EXCEPT !.headers2 = Headers(r.access_token)]
        done(t, w, m, how) ==
            [t EXCEPT !.pc = "report", !.warnings = w,
                      !.is_malicious_creator = m, !.check2 = how,
                      !.report = <<SecurityReport(w, r.is_honeypot, m)>>]
    IN
    /\ r.pc = "check2"
    /\ IF FindDeployerAddress = ""
       THEN Set(p, done(r, r.warnings, FALSE, "skipped"))
       ELSE \E resp \in AddressSecurityResponses :
            IF resp.status # "ok"
            THEN IF Check2Catches(ErrorOf(resp.status))
                 THEN Set(p, done(s, Check2Failed(r.warnings), FALSE, "failed"))
                 ELSE Set(p, [s EXCEPT !.pc = "report", !.rsc_raised = TRUE,
                                       !.check2 = "failed"])
            ELSE Set(p, done(s, Check2Warnings(r.warnings, resp),
                             Check2Malicious(resp),
                             IF Check2Malicious(resp) THEN "flagged" ELSE "clean"))
    /\ UNCHANGED <<config, intents, plans, redis, now, issued>>

\* ------------------------------------------------------------ plan_intent
\* SelectCandidates without the test for "borrow"
SelectCandidatesLendOnly(intent_type, farms, lending) ==
    IF Contains(STR_LEND, intent_type) THEN lending ELSE farms

\* lines 163-172: the whitelist to evaluate
SelectCandidates(intent_type, farms, lending) ==
    IF Contains(STR_LEND, intent_type) \/ Contains(STR_BORROW, intent_type)
    THEN lending
    ELSE IF Contains(STR_STAKE, intent_type) \/ Contains(STR_FARM, intent_type)
    THEN farms
    ELSE farms

\* Skips that lets every reported candidate through
SkipsNever(report) == FALSE

\* lines 205-211: a candidate is skipped when its report is not safe
Skips(report) == ~report.is_safe

\* Utility with the weight on the safety term forgotten
UtilityUnweighted(apy, safety_score) == (apy \div 2) + 10000 * safety_score

\* lines 219-221 and 233: (apy * 0.5) + ((safety_score / 100.0) * 0.5),
\* rounded to 6 digits: in millionths, (apy + 10000 * safety_score) / 2,
\* a half going to the even neighbour
Utility(apy, safety_score) ==
    LET n == apy + 10000 * safety_score
        q == n \div 2
    IN  IF n % 2 = 0 THEN q ELSE IF q % 2 = 0 THEN q ELSE q + 1

\* lines 228-236
CandidateSchema(candidate, report) ==
    [address |-> candidate.address,
     apy |-> candidate.mock_apy,
     tvl |-> candidate.mock_tvl,
     safety_score |-> report.safety_score,
     utility |-> Utility(candidate.mock_apy, report.safety_score),
     warnings |-> report.warnings,
     protocol |-> candidate.protocol]

\* line 262: max(candidate_results, key=utility) keeps the first maximum
RECURSIVE MaxFrom(_, _, _)
MaxFrom(results, i, best) ==
    IF i > Len(results) THEN best
    ELSE IF results[i].utility > results[best].utility
         THEN MaxFrom(results, i + 1, i)
         ELSE MaxFrom(results, i + 1, best)

\* ChooseBest that keeps the last maximum
RECURSIVE MaxFromLast(_, _, _)
MaxFromLast(results, i, best) ==
    IF i > Len(results) THEN best
    ELSE IF results[i].utility >= results[best].utility
         THEN MaxFromLast(results, i + 1, i)
         ELSE MaxFromLast(results, i + 1, best)

ChooseLast(results) == results[MaxFromLast(results, 2, 1)]

ChooseBest(results) == results[MaxFrom(results, 2, 1)]

\* line 281
ActionType(protocol, intent_type) ==
    IF protocol = "lending" \/ Contains(STR_LEND, intent_type)
    THEN "lend" ELSE "stake"

\* PlanData that approves the intent wallet instead of the chosen contract
PlanDataApprovesWallet(chosen, intent, intent_type) ==
    [steps |-> << [type |-> "approve",
                   asset |-> intent.intent_json.asset,
                   amount |-> intent.intent_json.amount,
                   spender |-> INTENT_WALLET_ADDRESS],
                  [type |-> ActionType(chosen.protocol, intent_type),
                   contract |-> chosen.address,
                   amount |-> intent.intent_json.amount,
                   asset |-> intent.intent_json.asset] >>,
     chosen_protocol |-> chosen.protocol,
     intent_wallet |-> INTENT_WALLET_ADDRESS,
     chain_id |-> intent.chain_id]

\* lines 276-313
PlanData(chosen, intent, intent_type) ==
    [steps |-> << [type |-> "approve",
                   asset |-> intent.intent_json.asset,
                   amount |-> intent.intent_json.amount,
                   spender |-> chosen.address],
                  [type |-> ActionType(chosen.protocol, intent_type),
                   contract |-> chosen.address,
                   amount |-> intent.intent_json.amount,
                   asset |-> intent.intent_json.asset] >>,
     chosen_protocol |-> chosen.protocol,
     intent_wallet |-> INTENT_WALLET_ADDRESS,
     chain_id |-> intent.chain_id]

\* lines 323-329 (utility_scores, a dump of candidate_results that nothing
\* reads back, is not kept in the row)
PlanRow(intent_id, plan_data, chosen) ==
    [intent |-> intent_id,
     plan_json |-> plan_data,
     chosen_contract_address |-> chosen.address,
     status |-> "ready"]

\* IntentFound that looks among the parsed Intents only
IntentFoundParsed(table, id) == id <= Len(table) /\ table[id].status = "parsed"

\* lines 106-113: Intent.objects.get(id=payload.intent_id), by id alone
IntentFound(table, id) == id <= Len(table)

\* plan_intent, lines 104-181: load the Intent, pick the whitelist
PlanStart(p) ==
    LET r == req[p] IN
    /\ r.pc = "idle"
    /\ Len(plans) < MaxPlans
    /\ \E id \in 1..(Len(intents) + 1) :
        IF ~IntentFound(intents, id)
        THEN Set(p, [IdleReq EXCEPT !.op = "plan", !.intent_id = id,
                                    !.response = 404])
        ELSE LET t == Lower(intents[id].intent_json.intent_type) IN
             Set(p, [IdleReq EXCEPT
                       !.op = "plan", !.pc = "loop", !.intent_id = id,
                       !.intent = <<intents[id]>>, !.intent_type = t,
                       !.candidates_to_check =
                           SelectCandidates(t, CANDIDATE_FARMS, CANDIDATE_LENDING),
                       !.idx = 1, !.plans_before = Len(plans)])
    /\ UNCHANGED <<config, intents, plans, redis, now, issued>>

\* NextIndex that leaves the loop at the first candidate that is skipped
NextIndexBreak(idx, n, safe) == IF safe THEN idx + 1 ELSE n + 1

\* lines 183, 198, 203 and 211: `continue` and the end of the body both go
\* on with the next of the n candidates
NextIndex(idx, n, safe) == idx + 1

\* plan_intent, lines 191-240: the rest of the loop body, once
\* run_security_check has returned (or raised)
PlanReport(p) ==
    LET r == req[p]
        candidate == r.candidates_to_check[r.idx]
        next(results, safe) ==
            [ClearCheck(r) EXCEPT
               !.pc = "loop",
               !.idx = NextIndex(r.idx, Len(r.candidates_to_check), safe),
               !.candidate_results = results,
               !.checked = Append(r.checked,
                                  [address |-> candidate.address,
                                   raised |-> r.rsc_raised,
                                   is_safe |-> safe])]
    IN
    /\ r.pc = "report"
    /\ IF r.rsc_raised
       THEN Set(p, next(r.candidate_results, FALSE))
       ELSE IF Skips(r.report[1])
       THEN Set(p, next(r.candidate_results, r.report[1].is_safe))
       ELSE Set(p, next(Append(r.candidate_results,
                               CandidateSchema(candidate, r.report[1])),
                        r.report[1].is_safe))
    /\ UNCHANGED <<config, intents, plans, redis, now, issued>>

\* plan_intent, lines 248-253: no safe candidate, HTTP 500
PlanNoCandidates(p) ==
    LET r == req[p] IN
    /\ r.pc = "loop"
    /\ r.idx > Len(r.candidates_to_check)
    /\ r.candidate_results = <<>>
    /\ Set(p, [r EXCEPT !.pc = "idle", !.response = 500])
    /\ UNCHANGED <<config, intents, plans, redis, now, issued>>

\* plan_intent, lines 262-330: choose, build the plan, Plan.objects.create
PlanCreate(p) ==
    LET r == req[p]
        chosen == ChooseBest(r.candidate_results)
    IN
    /\ r.pc = "loop"
    /\ r.idx > Len(r.candidates_to_check)
    /\ r.candidate_results # <<>>
    /\ \E db_ok \in BOOLEAN :
        IF db_ok
        THEN /\ plans' = Append(plans,
                    PlanRow(r.intent_id,
                            PlanData(chosen, r.intent[1], r.intent_type), chosen))
             /\ Set(p, [r EXCEPT !.pc = "save_intent", !.chosen = <<chosen>>,
                                 !.new_plan = Len(plans) + 1])
        ELSE /\ plans' = plans
             /\ Set(p, [r EXCEPT !.pc = "idle", !.chosen = <<chosen>>,
                                 !.response = 500])
    /\ UNCHANGED <<config, intents, redis, now, issued>>

\* plan_intent, lines 332-351: intent.save() with status planned, HTTP 200
IntentSave(p) ==
    LET r == req[p] IN
    /\ r.pc = "save_intent"
    /\ \E db_ok \in BOOLEAN :
        IF db_ok
        THEN /\ intents' = [intents EXCEPT ![r.intent_id] =
                               [r.intent[1] EXCEPT !.status = "planned"]]
             /\ Set(p, [r EXCEPT !.pc = "idle", !.response = 200])
        ELSE /\ intents' = intents
             /\ Set(p, [r EXCEPT !.pc = "idle", !.response = 500])
    /\ UNCHANGED <<config, plans, redis, now, issued>>

\* ----------------------------------------------------------- parse_intent
\* texts a client posts to /parse-intent/
ParseInputs ==
    { <<"S", "t", "a", "k", "e", " ", "1", "0", "0", "0", " ", "B", "D", "A", "G">>,
      <<"l", "e", "n", "d", " ", "5">> }

\* lines 39-51
ParsedIntentData(input) ==
    IF Contains(STR_STAKE_1000_BDAG, Lower(input))
    THEN [intent_json |-> StakeIntentJson, status |-> "parsed"]
    ELSE [intent_json |-> EmptyIntentJson, status |-> "clarify"]

\* parse_intent, lines 39-78: the row is created, then the response is built;
\* IntentParseOutput requires an intent object, which a clarify answer lacks
ParseIntent(p) ==
    LET r == req[p] IN
    /\ r.pc = "idle"
    /\ Len(intents) < MaxIntents
    /\ \E input \in ParseInputs, db_ok \in BOOLEAN :
        LET d == ParsedIntentData(input) IN
        IF db_ok
        THEN /\ intents' = Append(intents, IntentRow(d.intent_json, d.status))
             /\ Set(p, [IdleReq EXCEPT
                          !.op = "parse", !.intent_id = Len(intents) + 1,
                          !.response = IF d.status = "parsed" THEN 200 ELSE 500])
        ELSE /\ intents' = intents
             /\ Set(p, [IdleReq EXCEPT !.op = "parse", !.response = 500])
    /\ UNCHANGED <<config, plans, redis, now, issued>>

\* --------------------------------------------------------- specifications
\* plan_intent together with run_security_check, without the token calls
PlanSteps(p) ==
    \/ PlanStart(p)
    \/ RunSecurityCheck(p)
    \/ TokenSecurityCheck(p)
    \/ AddressSecurityCheck(p)
    \/ PlanReport(p)
    \/ PlanNoCandidates(p)
    \/ PlanCreate(p)
    \/ IntentSave(p)

\* _get_access_token
TokenSteps(p) ==
    \/ TokenCacheGet(p)
    \/ TokenPost(p)
    \/ TokenCacheSet(p)

Step(p) == ParseIntent(p) \/ PlanSteps(p) \/ TokenSteps(p)

\* The whole service: requests handled one after the other while time passes.
Next == Step(1) \/ Tick

Spec == Init /\ [][Next]_vars

SourceDeployment == [farms |-> <<MockStakingFarm>>, lending |-> <<MockLending>>]

\* Planning: every deployment and every stored intent, with the service
\* created by the dev fallback of _create_security_service (no key, no
\* secret), so that run_security_check never asks for a token.
InitPlan ==
    InitWith(Deployments,
             {c \in Credentials : c.api_key = "" /\ c.api_secret = ""},
             IntentTables)

NextPlan == ParseIntent(1) \/ PlanSteps(1)

SpecPlan == InitPlan /\ [][NextPlan]_vars

\* Security checks: the deployment of the source, any credentials, at one
\* instant.
InitCheck ==
    InitWith({SourceDeployment}, Credentials,
             {<<IntentRow(StakeIntentJson, "parsed")>>})

NextCheck == PlanSteps(1) \/ TokenSteps(1)

SpecCheck == InitCheck /\ [][NextCheck]_vars

\* Token cache: the deployment of the source with credentials configured,
\* while time passes.
InitClock ==
    InitWith({SourceDeployment},
             {c \in Credentials : c.api_key # "" /\ c.api_secret # ""},
             {<<IntentRow(StakeIntentJson, "parsed")>>})

NextClock == PlanSteps(1) \/ TokenSteps(1) \/ Tick

SpecClock == InitClock /\ [][NextClock]_vars

\* Security checks started on a cache that is empty or already holds a
\* credential, with any credentials.
InitWarm ==
    InitAll({SourceDeployment}, Credentials,
            {<<IntentRow(StakeIntentJson, "parsed")>>},
            {EmptyCache, WarmCache})

NextWarm == PlanSteps(1) \/ TokenSteps(1)

SpecWarm == InitWarm /\ [][NextWarm]_vars

\* Token race: two workers handle a planning request each, with credentials
\* configured, on a cache that is empty or expired; each is followed up to
\* the return of its _get_access_token call, in every interleaving of their
\* cache reads, token requests and cache writes.
InitRace ==
    InitAll({SourceDeployment},
            {c \in Credentials : CredentialsProvided(c.api_key, c.api_secret)},
            {<<IntentRow(StakeIntentJson, "parsed")>>},
            {EmptyCache, StaleCache})

NextRace ==
    \E p \in Workers :
        \/ PlanStart(p)
        \/ RunSecurityCheck(p)
        \/ TokenSteps(p)

SpecRace == InitRace /\ [][NextRace]_vars

\* ----------------------------------------------------------------- claims
\* the Plan row a plan request has just created, and its action step
NewPlan(r) == plans[r.new_plan]
Steps(r)   == NewPlan(r).plan_json.steps

\* a plan request that loaded its Intent and has returned
PlanEnded(r) == r.op = "plan" /\ r.pc = "idle" /\ r.intent # <<>>

\* no report of this request said is_safe
NoneSafe(r) == \A i \in 1..Len(r.checked) : ~r.checked[i].is_safe

\* C1: a Plan is only ever created for a chosen candidate whose report, in
\* the same request, said is_safe = true; and a request in which no
\* candidate was reported safe ends with HTTP 500, creates no Plan and
\* leaves the Intent row as it was loaded.
C1_SafeChoiceOrNoPlan ==
    \A p \in Workers :
        LET r == req[p] IN
        /\ r.new_plan # 0 =>
              /\ r.chosen # <<>>
              /\ NewPlan(r).chosen_contract_address = r.chosen[1].address
              /\ \E i \in 1..Len(r.checked) :
                    /\ r.checked[i].address = NewPlan(r).chosen_contract_address
                    /\ r.checked[i].is_safe
        /\ (PlanEnded(r) /\ NoneSafe(r)) =>
              /\ r.response = 500
              /\ r.new_plan = 0
              /\ Len(plans) = r.plans_before
              /\ intents[r.intent_id] = r.intent[1]
        /\ (r.op = "plan" /\ r.pc # "idle" /\ NoneSafe(r)) =>
              /\ r.new_plan = 0
              /\ Len(plans) = r.plans_before

\* C1 witness: a Plan created for the second candidate after the first one
\* was reported unsafe
C1_Witness ==
    LET r == req[1] IN
    /\ r.new_plan # 0
    /\ Len(r.checked) = 2
    /\ ~r.checked[1].is_safe
    /\ r.checked[2].is_safe
    /\ NewPlan(r).chosen_contract_address = r.checked[2].address

\* run_security_check has just returned its report to plan_intent
Reported(r) == r.pc = "report" /\ r.report # <<>>

Holds(w, text) == \E i \in 1..Len(w) : w[i] = text

\* C2: is_safe is false exactly when the honeypot flag or the
\* malicious-deployer flag was raised (each flag comes with its own
\* warning); warnings that raise neither flag never make is_safe false.
C2_SafeIffNoFlag ==
    \A p \in Workers :
        LET r == req[p] IN
        Reported(r) =>
            /\ (~r.report[1].is_safe) <=> (r.is_honeypot \/ r.is_malicious_creator)
            /\ r.is_malicious_creator <=> r.check2 = "flagged"
            /\ r.is_honeypot <=>
                   Holds(r.report[1].warnings, "Honeypot detected by GoPlus.")
            /\ r.is_malicious_creator <=>
                   Holds(r.report[1].warnings,
                         "Deployer address is related to honeypot activities.")

\* C2 witness: a safe report that carries two warnings
C2_Witness ==
    LET r == req[1] IN
    /\ Reported(r)
    /\ r.report[1].is_safe
    /\ Len(r.report[1].warnings) = 2

\* the score before the floor, from what the report and the flags show
RawScore(r) ==
    100 - 10 * Len(r.report[1].warnings)
        - (IF r.is_honeypot THEN 80 ELSE 0)
        - (IF r.is_malicious_creator THEN 50 ELSE 0)

\* C3: the returned safety_score is max(0, 100 - 10*warnings - 80*honeypot
\* - 50*maliciousCreator), so it lies in 0..100: the floor is applied to
\* the returned value.
C3_ScoreFormula ==
    \A p \in Workers :
        LET r == req[p] IN
        Reported(r) =>
            /\ r.report[1].safety_score =
                   (IF RawScore(r) < 0 THEN 0 ELSE RawScore(r))
            /\ r.report[1].safety_score \in 0..100

\* C3 witness: a report whose penalties exceed 100, scored 0
C3_Witness ==
    LET r == req[1] IN
    /\ Reported(r)
    /\ RawScore(r) < 0
    /\ r.report[1].safety_score = 0

\* C4: a Plan has exactly two steps, approve then stake or lend; the
\* spender, the action step's contract and chosen_contract_address are the
\* chosen candidate's address; both steps carry the same asset and amount
\* (those of the Intent).
C4_PlanShape ==
    /\ \A k \in 1..Len(plans) :
          LET st == plans[k].plan_json.steps IN
          /\ Len(st) = 2
          /\ st[1].type = "approve"
          /\ st[2].type \in {"stake", "lend"}
          /\ st[1].spender = plans[k].chosen_contract_address
          /\ st[2].contract = plans[k].chosen_contract_address
          /\ st[1].asset = st[2].asset
          /\ st[1].amount = st[2].amount
    /\ \A p \in Workers :
          LET r == req[p] IN
          r.new_plan # 0 =>
              /\ Steps(r)[1].spender = r.chosen[1].address
              /\ Steps(r)[2].contract = r.chosen[1].address
              /\ NewPlan(r).chosen_contract_address = r.chosen[1].address
              /\ Steps(r)[1].asset = r.intent[1].intent_json.asset
              /\ Steps(r)[1].amount = r.intent[1].intent_json.amount

\* C4 witness: a Plan created with a lend step for an asset and an amount
C4_Witness ==
    LET r == req[1] IN
    /\ r.new_plan # 0
    /\ Steps(r)[2].type = "lend"
    /\ Steps(r)[1].asset = "BDAG"
    /\ Steps(r)[2].amount = "1000.0"

\* positions inside run_security_check (and the _get_access_token it calls)
InCheck(r) == r.pc \in {"tok_cache", "tok_post", "tok_set", "check1", "check2"}

\* steps run_security_check can still take from a position, at most
CheckRank(r) ==
    CASE r.pc = "tok_cache" -> NumShapes + 4
      [] r.pc = "tok_post"  -> (NumShapes - r.shape) + 4
      [] r.pc = "tok_set"   -> 3
      [] r.pc = "check1"    -> 2
      [] r.pc = "check2"    -> 1
      [] OTHER              -> 0

\* C5: run_security_check never fails.  Whatever the token acquisition and
\* the two oracle calls do, no error leaves the call, every candidate checked
\* got a report, and the call terminates: inside the call a step is always
\* possible, every step brings the return closer, and the position after the
\* last sub-check holds a SecurityReport.
C5_CheckNeverFails ==
    /\ [](\A p \in Workers :
            LET r == req[p] IN
            /\ ~r.rsc_raised
            /\ \A i \in 1..Len(r.checked) : ~r.checked[i].raised
            /\ r.pc = "report" => r.report # <<>>
            /\ r.pc = "tok_post" => r.shape \in 1..NumShapes
            /\ InCheck(r) => ENABLED (TokenSteps(p) \/ TokenSecurityCheck(p)
                                       \/ AddressSecurityCheck(p)))
    /\ [][\A p \in Workers :
            (InCheck(req[p]) /\ req'[p] # req[p]) =>
                CheckRank(req'[p]) < CheckRank(req[p])]_vars

\* C5 witness: a report returned although the token acquisition (key and
\* secret configured, no credential obtained) and both oracle calls failed
C5_Witness ==
    LET r == req[1] IN
    /\ Reported(r)
    /\ api_key # "" /\ api_secret # ""
    /\ r.access_token = 0
    /\ r.check1 = "failed"
    /\ r.check2 = "failed"

\* number of times text occurs in w
CountOf(w, text) == Cardinality({i \in 1..Len(w) : w[i] = text})

\* C6: the two sub-checks are independent.  Every report is built after
\* both sub-checks ran; the malicious-deployer flag is the one the address
\* sub-check raised, whatever the token sub-check did; a failed sub-check
\* adds exactly one warning, its own; the address sub-check only adds to the
\* warnings of the token sub-check and leaves the honeypot flag as it was.
C6_SubChecksIndependent ==
    \A p \in Workers :
        LET r == req[p]
            w == r.warnings
        IN
        /\ r.pc = "check2" => r.check1 \in {"failed", "read"}
        /\ Reported(r) =>
            /\ r.check1 \in {"failed", "read"}
            /\ r.check2 \in {"failed", "flagged", "clean"}
            /\ r.report[1].warnings = w
            /\ r.is_malicious_creator <=> r.check2 = "flagged"
            /\ r.check2 = "flagged" => ~r.report[1].is_safe
            /\ r.is_honeypot => ~r.report[1].is_safe
            /\ r.is_honeypot <=> Holds(w, "Honeypot detected by GoPlus.")
            /\ CountOf(w, "Failed to perform token security check.") =
                   (IF r.check1 = "failed" THEN 1 ELSE 0)
            /\ CountOf(w, "Failed to perform deployer address security check.") =
                   (IF r.check2 = "failed" THEN 1 ELSE 0)
            /\ r.check1 = "failed" =>
                   /\ r.warnings1 = 1
                   /\ w[1] = "Failed to perform token security check."
            /\ Len(w) = r.warnings1 + (IF r.check2 = "clean" THEN 0 ELSE 1)
            /\ r.check2 = "failed" =>
                   w[Len(w)] = "Failed to perform deployer address security check."

\* C6 witness: the token sub-check failed and the address sub-check still
\* flagged the deployer, in a report that is not safe
C6_Witness ==
    LET r == req[1] IN
    /\ Reported(r)
    /\ r.check1 = "failed"
    /\ r.check2 = "flagged"
    /\ r.is_malicious_creator
    /\ ~r.report[1].is_safe
    /\ Len(r.report[1].warnings) = 2

\* the checks of a request that reported is_safe, in the order they ran
SafeChecked(r) == SelectSeq(r.checked, LAMBDA c : c.is_safe)

\* C7: candidate_results holds the safe candidates in whitelist order, and
\* the chosen candidate is the first one of them with the maximum utility:
\* none has a greater utility, and every one before it has a smaller one.
C7_FirstMaximum ==
    \A p \in Workers :
        LET r   == req[p]
            res == r.candidate_results
        IN
        /\ \A i \in 1..Len(r.checked) :
               r.checked[i].address = r.candidates_to_check[i].address
        /\ r.pc = "loop" =>
               /\ Len(res) = Len(SafeChecked(r))
               /\ \A i \in 1..Len(res) : res[i].address = SafeChecked(r)[i].address
        /\ r.chosen # <<>> =>
               \E i \in 1..Len(res) :
                   /\ res[i] = r.chosen[1]
                   /\ \A j \in 1..Len(res) : res[j].utility <= res[i].utility
                   /\ \A j \in 1..(i - 1) : res[j].utility < res[i].utility

\* C7 witness: two safe candidates with the same utility, the first chosen
C7_Witness ==
    LET r == req[1] IN
    /\ r.new_plan # 0
    /\ Len(r.candidate_results) = 2
    /\ r.candidate_results[1].utility = r.candidate_results[2].utility
    /\ r.candidate_results[1].address # r.candidate_results[2].address
    /\ r.chosen[1] = r.candidate_results[1]

\* C8: in millionths, twice the utility of every ranked candidate is
\* apy + 10000 * safety_score (no rounding is left over for these values);
\* apy 0.12 with score 100 gives 0.56, apy 0.05 with score 80 gives 0.425,
\* and of these two the first is chosen.
C8_UtilityFormula ==
    \A p \in Workers :
        LET r   == req[p]
            res == r.candidate_results
        IN
        /\ \A i \in 1..Len(res) :
            /\ 2 * res[i].utility = res[i].apy + 10000 * res[i].safety_score
            /\ (res[i].apy = 120000 /\ res[i].safety_score = 100) =>
                   res[i].utility = 560000
            /\ (res[i].apy = 50000 /\ res[i].safety_score = 80) =>
                   res[i].utility = 425000
        /\ (/\ r.chosen # <<>>
            /\ Len(res) = 2
            /\ res[1].apy = 120000 /\ res[1].safety_score = 100
            /\ res[2].apy = 50000  /\ res[2].safety_score = 80) =>
               r.chosen[1] = res[1]

\* C8 witness: the two candidates of the example ranked, the first chosen
C8_Witness ==
    LET r   == req[1]
        res == r.candidate_results
    IN
    /\ r.new_plan # 0
    /\ Len(res) = 2
    /\ res[1].apy = 120000 /\ res[1].safety_score = 100 /\ res[1].utility = 560000
    /\ res[2].apy = 50000  /\ res[2].safety_score = 80  /\ res[2].utility = 425000
    /\ r.chosen[1] = res[1]

\* C9: the action step of a new Plan is a lend step exactly when the chosen
\* candidate's protocol is lending or the lower-cased intent_type contains
\* "lend" or "borrow", and a stake step otherwise.
C9_LendOrStake ==
    \A p \in Workers :
        LET r == req[p] IN
        r.new_plan # 0 =>
            /\ Steps(r)[2].type \in {"lend", "stake"}
            /\ Steps(r)[2].type = "lend" <=>
                   \/ r.chosen[1].protocol = "lending"
                   \/ Contains(STR_LEND, r.intent_type)
                   \/ Contains(STR_BORROW, r.intent_type)

\* C9 witness: an intent_type with "borrow" and without "lend", a lend step
C9_Witness ==
    LET r == req[1] IN
    /\ r.new_plan # 0
    /\ Contains(STR_BORROW, r.intent_type)
    /\ ~Contains(STR_LEND, r.intent_type)
    /\ Steps(r)[2].type = "lend"

\* _get_access_token has just ended (returned or raised) after a cache read
\* that answered
TokenCallEnded(r) ==
    r.pc = "check1" /\ r.tok_outcome # "none" /\ r.cache_seen # "error"

MissEnded(r) ==
    /\ r.pc = "check1"
    /\ r.tok_outcome \in {"issued", "raised"}
    /\ r.cache_seen \in {"empty", "expired"}
    /\ r.tok_error # "RedisError"

\* C11 as stated: on a cache miss the shapes are tried in order, shape k+1
\* exactly when shapes 1..k all failed to yield a credential, whatever the
\* failure: a call that ends without a credential has posted every shape,
\* and a call that obtains one has posted the shapes up to the one that
\* yielded it, returns that credential and has cached it.
C11_NextShapeAfterAnyFailure ==
    \A p \in Workers :
        LET r == req[p] IN
        /\ r.pc = "tok_post" => r.posts = r.shape - 1
        /\ MissEnded(r) =>
            /\ r.tok_outcome = "issued" =>
                   /\ r.posts = r.shape
                   /\ r.access_token # 0
                   /\ redis.val = r.access_token
            /\ r.tok_outcome = "raised" => r.posts = NumShapes

\* the report of a check that gets resp1 and resp2 from the oracle
ReportOf(resp1, resp2) ==
    LET w1 == IF resp1.status # "ok"
              THEN Check1Failed(<<>>) ELSE Check1Warnings(<<>>, resp1)
        h  == resp1.status = "ok" /\ Check1Honeypot(resp1)
        w2 == IF resp2.status # "ok"
              THEN Check2Failed(w1) ELSE Check2Warnings(w1, resp2)
        m  == resp2.status = "ok" /\ Check2Malicious(resp2)
    IN  [report |-> SecurityReport(w2, h, m), is_honeypot |-> h,
         is_malicious_creator |-> m]

\* what a check without a credential can return
UnauthenticatedReports ==
    {ReportOf(resp1, resp2) : resp1 \in TokenSecurityResponses,
                              resp2 \in AddressSecurityResponses}

\* report and flags of a check that has returned
Outcome(r) ==
    [report |-> r.report[1], is_honeypot |-> r.is_honeypot,
     is_malicious_creator |-> r.is_malicious_creator]

\* _get_access_token raised in this check
TokenFailed(r) == r.tok_outcome = "raised"

\* C12: when _get_access_token raises (every shape failed, or any other
\* error) nothing is written to the cache and run_security_check goes on
\* without a credential: both oracle calls are made, neither carries an
\* Authorization header, and the report returned is one an unauthenticated
\* check returns.
C12_TokenFailureNonFatal ==
    /\ [](\A p \in Workers :
            LET r == req[p] IN
            /\ TokenFailed(r) =>
                   /\ ~r.rsc_raised
                   /\ r.access_token = 0
                   /\ r.pc \in {"check1", "check2", "report"}
            /\ (TokenFailed(r) /\ r.pc \in {"check2", "report"}) =>
                   /\ r.check1 \in {"failed", "read"}
                   /\ r.headers1 = <<>>
            /\ (TokenFailed(r) /\ r.pc = "report") =>
                   /\ r.check2 \in {"failed", "flagged", "clean"}
                   /\ r.headers2 = <<>>
                   /\ r.report # <<>>
                   /\ Outcome(r) \in UnauthenticatedReports)
    /\ [][\A p \in Workers :
            (req[p].pc \in {"tok_post", "tok_set"}
                 /\ req'[p].tok_outcome # "issued") =>
                redis' = redis]_vars

\* C12 witness: a report returned, with both oracle calls made without a
\* header, after all three shapes failed and the cache stayed empty
C12_Witness ==
    LET r == req[1] IN
    /\ Reported(r)
    /\ TokenFailed(r)
    /\ r.posts = NumShapes
    /\ r.tok_error = "Exception"
    /\ redis.val = 0
    /\ r.check1 = "read" /\ r.headers1 = <<>>
    /\ r.check2 = "clean" /\ r.headers2 = <<>>

\* the service has no key or no secret
Unconfigured == api_key = "" \/ api_secret = ""

JustCached(r) ==
    r.pc = "check1" /\ r.tok_outcome = "issued" /\ r.tok_resp # <<>>

\* the seconds of an expires_in field, 3600 when the field is absent
SecondsOr3600(e) == IF e.present THEN e.value ELSE 3600

\* reported expiry as C14 states it: read next to the token (inside
\* result/data when the token is there, at top level otherwise)
ExpiryNextToToken(resp) ==
    SecondsOr3600(IF resp.nested THEN resp.nested_exp ELSE resp.top_exp)

\* reported expiry with the fallback: inside result/data when the token is
\* there and an expiry is given there, else the top-level one
ExpiryWithFallback(resp) ==
    IF resp.nested /\ resp.nested_exp.present
    THEN resp.nested_exp.value
    ELSE SecondsOr3600(resp.top_exp)

\* C14 as stated: the TTL of every cache write is max(60, e - 60) with e the
\* expiry next to the token (3600 when absent); it is at least 60, and it is
\* e - 60 when e >= 120.
C14_TtlFromExpiryNextToToken ==
    \A p \in Workers :
        LET r   == req[p]
            e   == ExpiryNextToToken(r.tok_resp[1])
            ttl == redis.exp - now
        IN  JustCached(r) =>
                /\ redis.val = r.access_token
                /\ ttl = (IF e - 60 > 60 THEN e - 60 ELSE 60)
                /\ ttl >= 60
                /\ e >= 120 => ttl = e - 60

\* C14, amended: the same with e the expiry given inside result/data when
\* the token is there and an expiry is given there, the top-level expiry
\* otherwise, and 3600 when that one is absent too.
C14_TtlFromExpiryWithFallback ==
    \A p \in Workers :
        LET r   == req[p]
            e   == ExpiryWithFallback(r.tok_resp[1])
            ttl == redis.exp - now
        IN  JustCached(r) =>
                /\ redis.val = r.access_token
                /\ ttl = (IF e - 60 > 60 THEN e - 60 ELSE 60)
                /\ ttl >= 60
                /\ e >= 120 => ttl = e - 60

\* C14 witness: a token inside result/data without an expiry there, a
\* top-level expiry of 200 seconds, cached for 140 seconds
C14_Witness ==
    LET r == req[1] IN
    /\ JustCached(r)
    /\ r.tok_resp[1].nested /\ r.tok_resp[1].nested_token
    /\ ~r.tok_resp[1].nested_exp.present
    /\ r.tok_resp[1].top_exp = Exp(200)
    /\ redis.exp - now = 140

\* the loop over the whitelist is over: the request is past it, or has
\* returned after it
LoopOver(r) ==
    /\ r.op = "plan"
    /\ r.intent # <<>>
    /\ \/ r.pc \in {"idle", "save_intent"}
       \/ r.pc = "loop" /\ r.idx > Len(r.candidates_to_check)

\* the addresses of a list of candidates or results
Addresses(list) == [i \in 1..Len(list) |-> list[i].address]

\* C15: in a planning request every whitelist candidate is checked exactly
\* once, in whitelist order, whatever the earlier checks gave; and the list
\* candidate_results returned holds exactly the candidates whose check
\* reported is_safe, in that order.
C15_EveryCandidateChecked ==
    \A p \in Workers :
        LET r == req[p] IN
        /\ r.pc = "loop" =>
               Len(r.checked) = Max2(r.idx, 1) - 1
        /\ r.pc \in {"tok_cache", "tok_post", "tok_set",
                     "check1", "check2", "report"} =>
               /\ r.idx \in 1..Len(r.candidates_to_check)
               /\ Len(r.checked) = r.idx - 1
        /\ Addresses(r.checked) =
               SubSeq(Addresses(r.candidates_to_check), 1, Len(r.checked))
        /\ Addresses(r.candidate_results) = Addresses(SafeChecked(r))
        /\ LoopOver(r) =>
               /\ Addresses(r.checked) = Addresses(r.candidates_to_check)
               /\ \A i, j \in 1..Len(r.checked) :
                      r.checked[i].address = r.checked[j].address => i = j

\* C15 witness: a request answered with a Plan whose first candidate was
\* reported unsafe and whose second candidate was then checked and listed
C15_Witness ==
    LET r == req[1] IN
    /\ r.pc = "idle" /\ r.response = 200
    /\ Len(r.candidates_to_check) = 2
    /\ Len(r.checked) = 2
    /\ ~r.checked[1].is_safe
    /\ r.checked[2].is_safe
    /\ Addresses(r.candidate_results) = <<r.candidates_to_check[2].address>>

\* worker p's _get_access_token call has returned a credential it requested
Issued(p) == req[p].pc = "check1" /\ req[p].tok_outcome = "issued"

\* worker p's call found the cache empty or expired
SawMiss(p) == req[p].cache_seen \in {"empty", "expired"}

\* this step is worker p's cache write
Writes(p) == req[p].pc = "tok_set" /\ req'[p].tok_outcome = "issued"

\* C16: two concurrent _get_access_token calls.  A call that requested a
\* credential returns one the oracle issued to it and to no other call, a
\* hit returns an issued one; the cache only ever holds an issued value;
\* when both calls missed and both obtained a credential the credentials
\* differ and the cache holds one of them; every cache write replaces what
\* the key held (the last write wins), and nothing else changes the key.
C16_TokenRace ==
    /\ [](/\ redis.val \in 0..issued
          /\ \A p \in Workers :
                LET r == req[p] IN
                /\ Issued(p) =>
                       /\ r.access_token \in r.minted
                       /\ \A q \in Workers \ {p} :
                              r.access_token \notin req[q].minted
                /\ (r.pc = "check1" /\ r.tok_outcome = "hit") =>
                       r.access_token \in 1..issued
          /\ (\A p \in Workers : Issued(p) /\ SawMiss(p)) =>
                /\ \A p, q \in Workers :
                       req[p].access_token = req[q].access_token => p = q
                /\ \E p \in Workers : redis.val = req[p].access_token)
    /\ [][\A p \in Workers :
            Writes(p) =>
                /\ redis'.val = req[p].access_token
                /\ redis'.exp = now + req[p].cache_ttl]_vars
    /\ [][redis' # redis => \E p \in Workers : Writes(p)]_vars

\* C16 witness: both calls missed and each obtained its own credential;
\* the cache holds the one of worker 1, issued first and written last
C16_Witness ==
    /\ \A p \in Workers : Issued(p) /\ SawMiss(p)
    /\ req[1].access_token < req[2].access_token
    /\ redis.val = req[1].access_token

\* a call that returned the cached credential (security_service.py 61-64)
CacheHit(p) ==
    /\ req[p].pc = "check1"
    /\ req[p].tok_outcome = "hit"

\* C17: a credential returned on a cache hit is not yet expired by the
\* expiry the oracle reported when it issued it: the time of the call is
\* before the issue time plus the reported number of seconds, whatever that
\* number was. (Fails: a reported expiry under 60 seconds is cached for 60.)
C17_HitBeforeReportedExpiry ==
    CacheHit(1) => req[1].called_at < redis.expires_at

\* the token-security sub-check found a result for the address
ResultPresent(r) ==
    /\ r.pc = "check2"
    /\ r.check1 = "read"
    /\ r.open_source_flag # ""

SourceNotVerified(r) ==
    Holds(r.warnings, "Contract source code is not verified.")

\* C18: when the token-security sub-check found a result for the address,
\* the "source not verified" warning is there exactly when is_open_source
\* is none of "1", "true", "True" (an absent or null field included); the
\* honeypot flag is the one is_honeypot raised and is_safe depends on the
\* two flags only.  (Fails: the warning needs "0", "false" or "False".)
C18_NotVerifiedUnlessTruthy ==
    \A p \in Workers :
        LET r == req[p] IN
        /\ ResultPresent(r) =>
               /\ SourceNotVerified(r) <=> ~Truthy(r.open_source_flag)
               /\ r.is_honeypot <=>
                      Holds(r.warnings, "Honeypot detected by GoPlus.")
        /\ Reported(r) =>
               /\ r.is_honeypot <=>
                      Holds(r.warnings, "Honeypot detected by GoPlus.")
               /\ r.report[1].is_safe <=>
                      ~(r.is_honeypot \/ r.is_malicious_creator)

\* the warnings of a check in which both GoPlus calls failed
BothFailed ==
    << "Failed to perform token security check.",
       "Failed to perform deployer address security check." >>

\* run_security_check returned after both of its sub-checks failed
Degraded(r) ==
    /\ Reported(r)
    /\ r.check1 = "failed"
    /\ r.check2 = "failed"

\* C19: a candidate for which both oracle sub-checks fail gets a report
\* with is_safe true, exactly two warnings and safety_score 80; the loop
\* does not skip it but appends it to candidate_results with that score;
\* a Plan that is created has a chosen candidate from that list (a degraded
\* one where it has the first maximal utility: see the witness).
C19_DegradedStillRanked ==
    /\ [](\A p \in Workers :
            LET r == req[p] IN
            /\ Degraded(r) =>
                   /\ r.report[1].is_safe
                   /\ r.report[1].warnings = BothFailed
                   /\ r.report[1].safety_score = 80
                   /\ ~Skips(r.report[1])
            /\ \A i \in 1..Len(r.candidate_results) :
                   r.candidate_results[i].warnings = BothFailed =>
                       r.candidate_results[i].safety_score = 80
            /\ r.chosen # <<>> =>
                   \E i \in 1..Len(r.candidate_results) :
                       r.candidate_results[i] = r.chosen[1])
    /\ [][\A p \in Workers :
            (Degraded(req[p]) /\ req'[p].pc = "loop") =>
                LET r == req[p]
                    candidate == r.candidates_to_check[r.idx]
                    results == req'[p].candidate_results
                IN  /\ Len(results) = Len(r.candidate_results) + 1
                    /\ SubSeq(results, 1, Len(r.candidate_results)) =
                           r.candidate_results
                    /\ results[Len(results)].address = candidate.address
                    /\ results[Len(results)].safety_score = 80
                    /\ results[Len(results)].warnings = BothFailed]_vars

\* a Plan was created whose chosen candidate had no oracle verification
C19_Witness ==
    /\ req[1].pc = "save_intent"
    /\ req[1].chosen # <<>>
    /\ req[1].chosen[1].warnings = BothFailed
    /\ req[1].chosen[1].safety_score = 80
    /\ Len(plans) = 1
    /\ plans[1].chosen_contract_address = req[1].chosen[1].address

\* C20: whatever the two sub-checks answer, a report has at most 3
\* warnings; a safe report scores 80, 90 or 100; an unsafe report has at
\* least one warning and scores at most 40, at most 10 with a honeypot; so
\* every candidate in candidate_results scores at least 80.
C20_ReportBounds ==
    \A p \in Workers :
        LET r == req[p] IN
        /\ Reported(r) =>
               LET report == r.report[1] IN
               /\ Len(report.warnings) <= 3
               /\ report.is_safe => report.safety_score \in {80, 90, 100}
               /\ ~report.is_safe =>
                      /\ Len(report.warnings) >= 1
                      /\ report.safety_score <= 40
               /\ r.is_honeypot => report.safety_score <= 10
        /\ \A i \in 1..Len(r.candidate_results) :
               r.candidate_results[i].safety_score >= 80

\* a malicious deployer alone: the highest score of an unsafe report, met
\* while a candidate scoring the lowest safe score is already ranked
C20_Witness ==
    /\ Reported(req[1])
    /\ ~req[1].report[1].is_safe
    /\ ~req[1].is_honeypot
    /\ req[1].report[1].safety_score = 40
    /\ req[1].candidate_results # <<>>
    /\ req[1].candidate_results[1].safety_score = 80

\* a plan request on an Intent that parse_intent stored as not understood
OnClarify(r) ==
    /\ r.op = "plan"
    /\ r.intent # <<>>
    /\ r.intent[1].status = "clarify"
    /\ r.intent[1].intent_json = EmptyIntentJson

HasPlan(id) == \E k \in 1..Len(plans) : plans[k].intent = id

\* C21: plan_intent does not look at the Intent's status.  A plan request
\* on a stored Intent is never answered "not found"; on an Intent stored
\* with status clarify and an empty intent it evaluates the staking
\* whitelist, and once a candidate is ranked it creates (unless the database
\* fails) a Plan with status ready whose approve and stake steps have null
\* asset and amount, then sets the Intent to planned.  The Plan row is
\* written before the status, so a planned Intent always has a Plan.
C21_PlanIgnoresStatus ==
    /\ [](/\ \A id \in 1..Len(intents) :
               intents[id].status = "planned" => HasPlan(id)
          /\ \A p \in Workers :
               LET r == req[p] IN
               /\ (r.op = "plan" /\ r.intent_id \in 1..Len(intents)) =>
                      r.response # 404
               /\ OnClarify(r) =>
                      /\ r.candidates_to_check = CANDIDATE_FARMS
                      /\ r.new_plan # 0 =>
                             /\ NewPlan(r).status = "ready"
                             /\ NewPlan(r).intent = r.intent_id
                             /\ \E i \in 1..Len(CANDIDATE_FARMS) :
                                    NewPlan(r).chosen_contract_address =
                                        CANDIDATE_FARMS[i].address
                             /\ Steps(r)[1].type = "approve"
                             /\ Steps(r)[2].type = "stake"
                             /\ \A n \in 1..2 :
                                    /\ Steps(r)[n].asset = NULL
                                    /\ Steps(r)[n].amount = NULL
                      /\ (r.pc = "idle" /\ r.response = 200) =>
                             /\ r.new_plan # 0
                             /\ intents[r.intent_id].status = "planned")
    /\ [][/\ \A id \in 1..Len(intents) :
               (intents[id].status # "planned"
                    /\ intents'[id].status = "planned") =>
                   HasPlan(id) /\ plans' = plans
          /\ \A p \in Workers :
               LET r == req[p] IN
               (/\ OnClarify(r)
                /\ r.pc = "loop"
                /\ r.idx > Len(r.candidates_to_check)
                /\ r.candidate_results # <<>>
                /\ req'[p] # r) =>
                   \/ /\ req'[p].pc = "save_intent"
                      /\ Len(plans') = Len(plans) + 1
                      /\ req'[p].new_plan = Len(plans')
                   \/ /\ req'[p].pc = "idle"
                      /\ req'[p].response = 500
                      /\ plans' = plans]_vars

\* a clarify Intent with an empty intent was planned: a stake Plan with null
\* asset and amount exists and the Intent is now planned
C21_Witness ==
    LET r == req[1] IN
    /\ OnClarify(r)
    /\ r.pc = "idle"
    /\ r.response = 200
    /\ intents[r.intent_id].status = "planned"
    /\ NewPlan(r).status = "ready"
    /\ Steps(r)[2].type = "stake"
    /\ Steps(r)[2].asset = NULL
    /\ Steps(r)[2].amount = NULL

====
